---- MODULE Spec2Model ----
(***************************************************************************)
(* Model of mapAllSettled (src/lib.ts): a settle-all map with a bounded    *)
(* number of workers that share one generator as their work queue.         *)
(*                                                                         *)
(* JavaScript runs every piece of code to its next await without           *)
(* interleaving, so one action is one such run: the synchronous part of    *)
(* the call, the launch of one worker up to its first await, the           *)
(* settlement of one transform promise inside runMapFn, the continuation   *)
(* of one worker after `await runMapFn(...)`, the continuation of the call *)
(* after `await Promise.all(workers)`.                                     *)
(*                                                                         *)
(* Array indices are 0-based as in the source; the input array is the      *)
(* sequence arr, so that input[i] is arr[i + 1].                           *)
(***************************************************************************)
EXTENDS Integers, Sequences, FiniteSets, TLC

\* ---------------------------------------------------------------- bounds
MaxN == 3

Values == {10, 20}

\* the ways one invocation of the caller's transform can end
Behaviours == {"ok", "reject", "throw", "hang"}

\* requested limits: negative, zero, below, at and above the input length
Limits == (0 - 1)..(MaxN + 1)

\* a hole of `new Array(n)`
EMPTY == 0 - 1

VARIABLES
    arr,              \* the input array
    behaviour,        \* behaviour[i + 1]: how the transform ends for index i
    hasLimit,         \* FALSE when the third argument is omitted
    limitArg,         \* the third argument when given
    pc,               \* position of the mapAllSettled call
    concurrentLimit,  \* the parameter/variable concurrentLimit
    gen,              \* the generator made by mapParams
    workers,          \* the array `workers`
    i,                \* the loop variable of the launch loop
    wk,               \* wk[id]: the worker(id, ...) call
    result,           \* the array `result`: written slots only
    inflight,         \* transform promises pending: [id, index]
    calls,            \* invocations of mapFn so far, in order
    writes,           \* writes[i]: assignments to result[i] so far
    awaited           \* TRUE once the call has suspended at an await

vars == <<arr, behaviour, hasLimit, limitArg, pc, concurrentLimit, gen,
          workers, i, wk, result, inflight, calls, writes, awaited>>

\* ------------------------------------------------------- pure helpers
Min(a, b) == IF a <= b THEN a ELSE b

Max(a, b) == IF a >= b THEN a ELSE b

SetMax(S) == CHOOSE m \in S : \A x \in S : x <= m

\* arr.length
Length(array) == Len(array)

\* array[index]
At(array, index) == array[index + 1]

\* result.length of the sparse array `result`
ArrayLength(res) == IF DOMAIN res = {} THEN 0 ELSE SetMax(DOMAIN res) + 1

\* the value the caller's transform fulfils with for (value, index, array)
MapValue(value, index) == 2 * value + index

\* the value the caller's transform throws or rejects with
MapReason(value, index) == <<"error", value, index>>

Fulfilled(value) == [status |-> "fulfilled", value |-> value]

Rejected(reason) == [status |-> "rejected", reason |-> reason]

NoRecord == [status |-> "none"]

DefaultOne(given, limit, array) == IF given THEN limit ELSE 1

\* the defaulted third parameter
DefaultLimit(given, limit, array) == IF given THEN limit ELSE Length(array)

ClampNone(limit, n) == limit

ClampUp(limit, n) == Max(limit, n)

\* concurrentLimit = Math.min(concurrentLimit, arr.length)
ClampLimit(limit, n) == Min(limit, n)

EmptyCheckOff(array) == FALSE

\* arr.length === 0
IsEmpty(array) == Length(array) = 0

\* new Array(n): RangeError unless n is a valid array length
ValidArrayLength(n) == n >= 0

NewArrayEmpty(n) == <<>>

\* new Array(n): n holes
NewArray(n) == [k \in 1..n |-> EMPTY]

CursorStuck(index) == index

\* mapParams: index++
NextCursor(index) == index + 1

GenStopsEarly(g, array) == (~g.done) /\ g.index + 1 < Length(array)

\* mapParams: the loop test `index < array.length` made by gen.next()
GenHasNext(g, array) == (~g.done) /\ g.index < Length(array)

RecordWrapsReason(b, value, index) ==
    IF b = "ok" THEN Fulfilled(MapValue(value, index))
                ELSE Rejected(<<"wrapped", MapReason(value, index)>>)

\* the record runMapFn returns once the transform has ended in way b
SettledRecord(b, value, index) ==
    IF b = "ok" THEN Fulfilled(MapValue(value, index))
                ELSE Rejected(MapReason(value, index))

WriteFirst(res, index, rec) ==
    [k \in DOMAIN res \cup {0} |-> IF k = 0 THEN rec ELSE res[k]]

\* result[index] = rec
WriteSlot(res, index, rec) ==
    [k \in DOMAIN res \cup {index} |-> IF k = index THEN rec ELSE res[k]]

Bump(f, k) == [f EXCEPT ![k] = @ + 1]

\* ------------------------------------------------------------- initial
Init ==
    /\ arr \in UNION {[1..n -> Values] : n \in 0..MaxN}
    /\ behaviour \in [1..Len(arr) -> Behaviours]
    /\ hasLimit \in BOOLEAN
    /\ limitArg \in IF hasLimit THEN Limits ELSE {0}
    /\ pc = "call"
    /\ concurrentLimit = DefaultLimit(hasLimit, limitArg, arr)
    /\ gen = [created |-> FALSE, index |-> 0, done |-> FALSE]
    /\ workers = <<>>
    /\ i = 0
    /\ wk = <<>>
    /\ result = <<>>
    /\ inflight = {}
    /\ calls = <<>>
    /\ writes = [k \in 0..(Len(arr) - 1) |-> 0]
    /\ awaited = FALSE

\* ---------------------------------------------------------- the worker
\* One turn of worker id's `for (... of gen)` loop, from gen.next() to the
\* next suspension: either the generator is exhausted and the worker ends,
\* or runMapFn calls mapFn(currentValue, index, array) and the worker
\* suspends at `await runMapFn(...)`.
WorkerTurn(id, processed) ==
    IF GenHasNext(gen, arr)
    THEN LET index == gen.index
             value == At(arr, index)
             b     == behaviour[index + 1]
         IN  /\ gen' = [gen EXCEPT !.index = NextCursor(index)]
             /\ calls' = Append(calls, [value |-> value, index |-> index, id |-> id])
             /\ IF b = "throw"
                THEN /\ wk' = [k \in DOMAIN wk \cup {id} |->
                                 IF k = id
                                 THEN [st |-> "resumable", index |-> index,
                                       rec |-> SettledRecord(b, value, index),
                                       processed |-> processed]
                                 ELSE wk[k]]
                     /\ UNCHANGED inflight
                ELSE /\ wk' = [k \in DOMAIN wk \cup {id} |->
                                 IF k = id
                                 THEN [st |-> "awaiting", index |-> index,
                                       rec |-> NoRecord,
                                       processed |-> processed]
                                 ELSE wk[k]]
                     /\ inflight' = inflight \cup {[id |-> id, index |-> index]}
    ELSE /\ gen' = [gen EXCEPT !.done = TRUE]
         /\ wk' = [k \in DOMAIN wk \cup {id} |->
                     IF k = id
                     THEN [st |-> "done", index |-> EMPTY, rec |-> NoRecord,
                           processed |-> processed]
                     ELSE wk[k]]
         /\ UNCHANGED <<calls, inflight>>

SomeWorkerDone ==
    \E k \in 1..Len(workers) : workers[k] # EMPTY /\ wk[workers[k]].st = "done"

AllEntriesDone ==
    \A k \in 1..Len(workers) : workers[k] # EMPTY /\ wk[workers[k]].st = "done"

\* Promise.all(workers) fulfils: every element that is a worker has ended
\* (a hole is `undefined`, which resolves at once)
AllWorkersDone ==
    \A k \in 1..Len(workers) : workers[k] # EMPTY => wk[workers[k]].st = "done"

\* ------------------------------------------------------------- actions
\* mapAllSettled, lines 102-110: empty input returns at once; otherwise
\* the generator is made and the limit clamped
Call ==
    /\ pc = "call"
    /\ IF IsEmpty(arr)
       THEN /\ pc' = "returned"
            /\ UNCHANGED <<gen, concurrentLimit>>
       ELSE /\ pc' = "alloc"
            /\ gen' = [created |-> TRUE, index |-> 0, done |-> FALSE]
            /\ concurrentLimit' = ClampLimit(concurrentLimit, Length(arr))
    /\ UNCHANGED <<arr, behaviour, hasLimit, limitArg, workers, i, wk, result,
                   inflight, calls, writes, awaited>>

\* line 112: const workers = new Array(concurrentLimit)
AllocWorkers ==
    /\ pc = "alloc"
    /\ IF ValidArrayLength(concurrentLimit)
       THEN /\ workers' = NewArray(concurrentLimit)
            /\ pc' = "launch"
       ELSE /\ pc' = "rejected"
            /\ UNCHANGED workers
    /\ i' = 0
    /\ UNCHANGED <<arr, behaviour, hasLimit, limitArg, concurrentLimit, gen,
                   wk, result, inflight, calls, writes, awaited>>

\* lines 113-115, one iteration: workers.push(worker(i, gen, mapFn, result));
\* the worker runs synchronously up to its first await
LaunchWorker ==
    /\ pc = "launch"
    /\ i < concurrentLimit
    /\ WorkerTurn(i, 0)
    /\ workers' = Append(workers, i)
    /\ i' = i + 1
    /\ UNCHANGED <<arr, behaviour, hasLimit, limitArg, pc, concurrentLimit,
                   result, writes, awaited>>

\* lines 113, 117-119: the loop ends and the call suspends at
\* `await Promise.all(workers)`
AwaitAll ==
    /\ pc = "launch"
    /\ ~(i < concurrentLimit)
    /\ pc' = "wait"
    /\ awaited' = TRUE
    /\ UNCHANGED <<arr, behaviour, hasLimit, limitArg, concurrentLimit, gen,
                   workers, i, wk, result, inflight, calls, writes>>

\* runMapFn, lines 34-44: the promise returned by mapFn settles and runMapFn
\* returns the settled record
Settle(id) ==
    /\ pc = "wait"
    /\ id \in DOMAIN wk
    /\ wk[id].st = "awaiting"
    /\ behaviour[wk[id].index + 1] # "hang"
    /\ wk' = [wk EXCEPT ![id].st = "resumable",
                        ![id].rec = SettledRecord(behaviour[wk[id].index + 1],
                                                  At(arr, wk[id].index),
                                                  wk[id].index)]
    /\ inflight' = inflight \ {[id |-> id, index |-> wk[id].index]}
    /\ UNCHANGED <<arr, behaviour, hasLimit, limitArg, pc, concurrentLimit,
                   gen, workers, i, result, calls, writes, awaited>>

\* worker, lines 66-69 and 64: the worker resumes after `await runMapFn`,
\* stores the record, counts it and takes its next turn
Resume(id) ==
    /\ pc = "wait"
    /\ id \in DOMAIN wk
    /\ wk[id].st = "resumable"
    /\ result' = WriteSlot(result, wk[id].index, wk[id].rec)
    /\ writes' = Bump(writes, wk[id].index)
    /\ WorkerTurn(id, wk[id].processed + 1)
    /\ UNCHANGED <<arr, behaviour, hasLimit, limitArg, pc, concurrentLimit,
                   workers, i, awaited>>

\* lines 119-121: Promise.all has fulfilled; return result
Return ==
    /\ pc = "wait"
    /\ AllWorkersDone
    /\ pc' = "returned"
    /\ UNCHANGED <<arr, behaviour, hasLimit, limitArg, concurrentLimit, gen,
                   workers, i, wk, result, inflight, calls, writes, awaited>>

Next ==
    \/ Call
    \/ AllocWorkers
    \/ LaunchWorker
    \/ AwaitAll
    \/ \E id \in 0..MaxN : Settle(id)
    \/ \E id \in 0..MaxN : Resume(id)
    \/ Return

Spec == Init /\ [][Next]_vars

\* The event loop runs every continuation that is ready, and a transform
\* that is not of the hanging kind settles.
LiveSpec == Spec /\ WF_vars(Next)

\* ------------------------------------------------- derived quantities
N == Len(arr)

Indices == 0..(N - 1)

\* the limit as requested by the caller (the default is the input length)
Requested == IF hasLimit THEN limitArg ELSE N

\* the set S of indices on which the transform fails
FailSet == {k \in Indices : behaviour[k + 1] \in {"reject", "throw"}}

NoHang == \A k \in Indices : behaviour[k + 1] # "hang"

\* the outcome of the invocation mapFn(input[k], k, input)
Outcome(k) == SettledRecord(behaviour[k + 1], At(arr, k), k)

\* the worker calls made so far
Launched == DOMAIN wk

Populated == DOMAIN result = Indices

\* --------------------------------------------------------------- claims

\* C1: once the call has returned for a requested limit >= 1 (or the
\* default), the result has length exactly N and every slot 0..N-1 holds a
\* settled record, whatever the order of completion.
C1_LengthAndPopulated ==
    (pc = "returned" /\ (Requested >= 1 \/ ~hasLimit)) =>
        /\ ArrayLength(result) = N
        /\ Populated
        /\ \A k \in Indices : result[k].status \in {"fulfilled", "rejected"}

C1_Witness ==
    /\ pc = "returned"
    /\ N = 3
    /\ hasLimit /\ limitArg = 2
    /\ FailSet = {1}
    /\ ArrayLength(result) = 3

\* C2 (as stated, for every concurrency limit): when the call has returned,
\* every slot i in [0, N) holds the outcome of the invocation made with
\* (input[i], i, input), and no record is ever stored at another slot.
C2_IndexAligned ==
    /\ \A k \in DOMAIN result : k \in Indices /\ result[k] = Outcome(k)
    /\ pc = "returned" =>
         \A k \in Indices :
            /\ k \in DOMAIN result
            /\ result[k] = Outcome(k)
            /\ \E c \in 1..Len(calls) :
                  calls[c].index = k /\ calls[c].value = At(arr, k)

\* C3 (as stated): when the call has returned, the result is rejected
\* exactly at the indices of S and fulfilled at every other index, none
\* missing, and with S empty it is the direct map of the transform.
C3_FailureIsolation ==
    pc = "returned" =>
        /\ Populated
        /\ \A k \in Indices :
              /\ (k \in FailSet => result[k] = Rejected(MapReason(At(arr, k), k)))
              /\ (k \notin FailSet => result[k] = Fulfilled(MapValue(At(arr, k), k)))
        /\ \A k \in Indices : writes[k] = 1

\* C4: the number of transforms started and not yet settled never exceeds
\* the clamped limit min(requested, N) (no transform at all is started for
\* a request below 0), and no worker has two transforms in flight.
C4_ConcurrencyBound ==
    /\ Cardinality(inflight) <= Max(0, Min(Requested, N))
    /\ \A a, b \in inflight : a.id = b.id => a.index = b.index

C4_Witness ==
    /\ N = 3
    /\ hasLimit /\ limitArg = 2
    /\ Cardinality(inflight) = 2
    /\ gen.index = 3

\* C5 (as stated): for a non-empty input a requested limit of 0 or below
\* behaves as a limit of 1: the call does not fail, one worker is launched,
\* at most one transform is in flight and the returned result is fully
\* populated.
C5_LowerClamp ==
    (N > 0 /\ hasLimit /\ limitArg <= 0) =>
        /\ pc # "rejected"
        /\ pc \in {"wait", "returned"} => Cardinality(Launched) = 1
        /\ pc = "returned" =>
              Populated /\ \A k \in Indices : result[k] = Outcome(k)

\* C6: a requested limit above N behaves as a limit of N: the clamped limit
\* is N, exactly N workers are launched, at most N transforms are in flight
\* and the returned result is the one every limit in 1..N returns.
C6_UpperClamp ==
    (hasLimit /\ limitArg > N) =>
        /\ pc \notin {"call", "rejected"}
              => concurrentLimit = N \/ N = 0
        /\ Cardinality(Launched) <= N
        /\ pc \in {"wait", "returned"} => Launched = 0..(N - 1)
        /\ Cardinality(inflight) <= N
        /\ pc = "returned" =>
              Populated /\ \A k \in Indices : result[k] = Outcome(k)

C6_Witness ==
    /\ N = 3
    /\ hasLimit /\ limitArg = 4
    /\ pc = "returned"
    /\ Launched = {0, 1, 2}

\* C7 (as stated): the promise returned by mapAllSettled never rejects,
\* whatever the input, the transform and the requested limit.
C7_NeverRejects == pc # "rejected"

\* C8: for an empty input the call returns the empty result at once, for
\* every requested limit: no generator, no worker, no suspension and no
\* invocation of the transform.
C8_EmptyInput ==
    N = 0 =>
        /\ pc \in {"call", "returned"}
        /\ ~gen.created
        /\ workers = <<>>
        /\ Launched = {}
        /\ calls = <<>>
        /\ ~awaited
        /\ ArrayLength(result) = 0

C8_Witness ==
    /\ N = 0
    /\ pc = "returned"
    /\ hasLimit /\ limitArg = 0 - 1

\* C9: for a non-empty input and a limit >= 1, if every transform
\* invocation settles, every worker eventually ends and the call
\* eventually returns.
C9_Termination ==
    (N > 0 /\ Requested >= 1 /\ NoHang) =>
        <>(pc = "returned" /\ \A id \in Launched : wk[id].st = "done")

C9_Witness ==
    /\ N = 3
    /\ hasLimit /\ limitArg = 2
    /\ NoHang
    /\ pc = "returned"
    /\ \A id \in Launched : wk[id].st = "done"
    /\ Launched = {0, 1}

\* C10 (as stated): the call has never returned while a worker is still
\* running, a transform is still in flight or a slot is still unset.
C10_NoEarlyReturn ==
    pc = "returned" =>
        /\ \A id \in Launched : wk[id].st = "done"
        /\ inflight = {}
        /\ Len(calls) = N
        /\ Populated

\* C11: with a limit of 1 the transforms run one at a time in ascending
\* index order: index k + 1 is invoked only once index k has settled and
\* its record is written, and the returned records are the per-index
\* outcomes that every larger limit returns.
C11_OneAtATime ==
    (Requested = 1 /\ N >= 1) =>
        /\ Cardinality(inflight) <= 1
        /\ Launched \subseteq {0}
        /\ \A c \in 1..Len(calls) :
              /\ calls[c].index = c - 1
              /\ \A k \in 0..(c - 2) :
                    k \in DOMAIN result /\ result[k] = Outcome(k)
        /\ pc = "returned" => \A k \in Indices : result[k] = Outcome(k)

C11_Witness ==
    /\ hasLimit /\ limitArg = 1
    /\ N = 3
    /\ Len(calls) = 3
    /\ DOMAIN result = {0, 1}
    /\ inflight = {[id |-> 0, index |-> 2]}

C13_Exclusive ==
    /\ [](/\ gen.index = Len(calls)
          /\ gen.index <= N
          /\ \A c \in 1..Len(calls) :
                /\ calls[c].index = c - 1
                /\ calls[c].value = At(arr, c - 1)
          /\ \A id \in Launched :
                wk[id].st # "done" => calls[wk[id].index + 1].id = id
          /\ \A a, b \in Launched :
                (/\ wk[a].st # "done"
                 /\ wk[b].st # "done"
                 /\ wk[a].index = wk[b].index) => a = b
          /\ gen.done => gen.index = N
          /\ (\E id \in Launched : wk[id].st = "done") => gen.done)
    /\ [][gen.done => gen' = gen /\ calls' = calls]_vars

C13_Witness ==
    /\ N = 3
    /\ hasLimit /\ limitArg = 2
    /\ gen.done
    /\ calls[3].id = 0
    /\ calls[2].id = 1
    /\ wk[1].st = "awaiting"

C15_NoRetry ==
    /\ \A c, d \in 1..Len(calls) : calls[c].index = calls[d].index => c = d
    /\ (pc = "returned" /\ (Requested >= 1 \/ ~hasLimit)) =>
          /\ Len(calls) = N
          /\ \A k \in Indices :
                Cardinality({c \in 1..Len(calls) :
                               calls[c].index = k /\ calls[c].value = At(arr, k)}) = 1
          /\ \A k \in FailSet :
                result[k].status = "rejected" /\ writes[k] = 1

C15_Witness ==
    /\ N = 3
    /\ hasLimit /\ limitArg = 2
    /\ pc = "returned"
    /\ FailSet = {0, 2}
    /\ behaviour[1] = "throw"
    /\ Len(calls) = 3

\* C16: whenever the transform has ended, runMapFn has produced a record:
\* fulfilled with the transform's value when it completed, rejected with
\* exactly the failure value when it threw synchronously or its promise
\* rejected; a worker holding a rejected record stores it and goes on to the
\* next work item (or ends when there is none).
C16_RunnerTotal ==
    /\ [](\A id \in Launched :
            LET k == wk[id].index
            IN  /\ wk[id].st = "resumable" =>
                     /\ behaviour[k + 1] \in {"ok", "reject", "throw"}
                     /\ behaviour[k + 1] = "ok" =>
                           wk[id].rec = [status |-> "fulfilled",
                                         value |-> MapValue(At(arr, k), k)]
                     /\ behaviour[k + 1] \in {"reject", "throw"} =>
                           wk[id].rec = [status |-> "rejected",
                                         reason |-> MapReason(At(arr, k), k)]
                /\ (wk[id].st = "awaiting" /\ pc = "wait")
                      => (behaviour[k + 1] = "hang" \/ ENABLED Settle(id))
                /\ wk[id].st = "awaiting" => behaviour[k + 1] # "throw")
    /\ [][\A id \in Launched :
            (/\ wk[id].st = "resumable"
             /\ wk[id].rec.status = "rejected"
             /\ wk'[id] # wk[id]) =>
                /\ result'[wk[id].index] = wk[id].rec
                /\ IF gen.index < N
                   THEN /\ wk'[id].index = gen.index
                        /\ wk'[id].st \in {"awaiting", "resumable"}
                        /\ Len(calls') = Len(calls) + 1
                   ELSE wk'[id].st = "done"]_vars

C16_Witness ==
    /\ N = 3
    /\ hasLimit /\ limitArg = 1
    /\ behaviour = <<"throw", "reject", "ok">>
    /\ DOMAIN result = {0, 1}
    /\ result[0].status = "rejected"
    /\ result[1].status = "rejected"
    /\ wk[0].st = "resumable"
    /\ wk[0].rec.status = "fulfilled"

\* the workers holding a work item whose slot is not yet written
Holding == {id \in Launched : wk[id].st # "done"}

\* the indices on which the transform never settles
HangSet == {k \in Indices : behaviour[k + 1] = "hang"}

\* C17: for a clamped limit L >= 1 the array the call waits on has length
\* 2L: L holes followed by the L worker promises 0..L-1; the holes do not
\* hold the wait back, which ends exactly when the L workers have ended,
\* and only the workers 0..L-1 ever take items.
C17_WorkerCollection ==
    (N >= 1 /\ pc \in {"launch", "wait", "returned"} /\ concurrentLimit >= 1) =>
        /\ Len(workers) = concurrentLimit + i
        /\ \A k \in 1..concurrentLimit : workers[k] = EMPTY
        /\ \A k \in 1..i : workers[concurrentLimit + k] = k - 1
        /\ Launched = 0..(i - 1)
        /\ \A c \in 1..Len(calls) : calls[c].id \in 0..(concurrentLimit - 1)
        /\ pc \in {"wait", "returned"} =>
              /\ Len(workers) = 2 * concurrentLimit
              /\ Launched = 0..(concurrentLimit - 1)
              /\ {calls[c].id : c \in 1..Len(calls)} = 0..(concurrentLimit - 1)
        /\ pc = "wait" =>
              (ENABLED Return <=> \A id \in Launched : wk[id].st = "done")
        /\ pc = "returned" => \A id \in Launched : wk[id].st = "done"

C17_Witness ==
    /\ N = 3
    /\ hasLimit /\ limitArg = 2
    /\ pc = "returned"
    /\ workers = <<EMPTY, EMPTY, 0, 1>>

C19_AlwaysLInFlight ==
    pc = "wait" =>
        /\ gen.index < N =>
              /\ \A id \in Launched : wk[id].st = "awaiting"
              /\ Cardinality(inflight) = concurrentLimit
        /\ (\E id \in Launched : wk[id].st = "done") => gen.index = N
        /\ Cardinality(inflight) = gen.index - Cardinality(DOMAIN result)

\* C19 (amended): once all workers are launched, while the generator still
\* has an unclaimed item, no worker has ended and each of the L workers
\* holds one claimed item whose transform is in flight or has settled with
\* the worker's continuation still pending, so at most L are in flight; a
\* worker ends only after exhaustion; the number handed out minus the number
\* written is the number of workers holding an item, which is the number in
\* flight plus the number settled and not yet recorded.
C19_WorkConservation ==
    pc = "wait" =>
        /\ gen.index < N =>
              /\ Launched = 0..(concurrentLimit - 1)
              /\ \A id \in Launched : wk[id].st \in {"awaiting", "resumable"}
              /\ Cardinality(Holding) = concurrentLimit
              /\ Cardinality(inflight) <= concurrentLimit
        /\ (\E id \in Launched : wk[id].st = "done") => gen.index = N /\ gen.done
        /\ gen.index - Cardinality(DOMAIN result) = Cardinality(Holding)
        /\ Cardinality(Holding) =
              Cardinality(inflight)
                + Cardinality({id \in Launched : wk[id].st = "resumable"})
        /\ inflight = {[id |-> id, index |-> wk[id].index] :
                         id \in {w \in Launched : wk[w].st = "awaiting"}}

C19_Witness ==
    /\ N = 3
    /\ hasLimit /\ limitArg = 2
    /\ pc = "wait"
    /\ gen.index = 2
    /\ wk[0].st = "resumable"
    /\ wk[1].st = "awaiting"
    /\ behaviour[1] = "ok"

\* C20: a transform that never settles keeps the call from returning and
\* its slot unset for ever; when it is the only one and the clamped limit
\* is at least 2, the other workers still take and record every other
\* index; with a limit of 1 no index after the stuck one is handed out.
C20_NoCancellation ==
    /\ [](\A h \in HangSet :
            /\ h \notin DOMAIN result
            /\ h < Len(calls) => pc # "returned"
            /\ (Requested >= 1 \/ ~hasLimit) => pc # "returned"
            /\ (Requested = 1 /\ h < Len(calls)) =>
                  /\ Len(calls) = h + 1
                  /\ DOMAIN result = 0..(h - 1))
    /\ (Cardinality(HangSet) = 1 /\ Min(Requested, N) >= 2) =>
          <>[](/\ pc = "wait"
               /\ DOMAIN result = Indices \ HangSet
               /\ \A k \in Indices \ HangSet : result[k] = Outcome(k)
               /\ Len(calls) = N
               /\ inflight = {[id |-> calls[h + 1].id, index |-> h] : h \in HangSet})
    /\ (Cardinality(HangSet) >= 1 /\ Requested = 1) =>
          <>[](/\ pc = "wait"
               /\ \E h \in HangSet :
                     /\ Len(calls) = h + 1
                     /\ DOMAIN result = 0..(h - 1))

C20_Witness ==
    /\ N = 3
    /\ hasLimit /\ limitArg = 2
    /\ HangSet = {0}
    /\ pc = "wait"
    /\ DOMAIN result = {1, 2}
    /\ wk[1].st = "done"
    /\ wk[0].st = "awaiting"

====
